---- MODULE Spec2Model ----
\* Model of the Editor coordinator of packages/core/src/index.ts: the update
\* fan-out, the IME composition buffer and its subscription surface, the plugin
\* render dispatch, and the Change / Selection / Model collaborators it drives.
EXTENDS Integers, Sequences, FiniteSets, TLC

VARIABLES
    text,                    \* Model: Text node key -> character buffer
    range,                   \* Selection: [present, anchor, focus]
    cacheFormatting,         \* Change: pending formatting queued
    isComposition,           \* Editor._isComposition
    compositionInfo,         \* Editor._compositionInfo ([defined, key, text])
    updateMap,               \* Editor.updateMap
    compositionUpdateMap,    \* Editor.compositionUpdateMap
    cacheCompositionUpdate,  \* Editor._cacheCompositionUpdate
    globalPlugins,           \* module-level _pluginMap
    pluginMap,               \* Editor.pluginMap
    destroyed,               \* destroy() has run
    steps,                   \* signals and API calls handled so far
    signal,                  \* the signal / API call handled last
    trace,                   \* what the last handler did, in order
    holding                  \* keys whose subscriber holds a segmentation of the session

vars == <<text, range, cacheFormatting, isComposition, compositionInfo, updateMap,
          compositionUpdateMap, cacheCompositionUpdate, globalPlugins, pluginMap,
          destroyed, steps, signal, trace, holding>>

-----------------------------------------------------------------------------
\* Bounds of the model.

\* longest character buffer of a Text node
MaxLen == 3
\* signals and API calls of one run of the editor
MaxSteps == 5
\* longest Operation batch of a notification that the Model emits on its own
MaxOps == 2
\* nesting of emitCompositionUpdate calls that a handler is followed into
MaxNesting == 3
\* signals and API calls of a run that follows one composition to its end
MaxDiscardSteps == 7

-----------------------------------------------------------------------------
\* The document: r (root Element) -> p (Element) -> a, b (Text).

ElementKeys == {"r", "p"}
TextKeys == {"a", "b"}
Keys == ElementKeys \cup TextKeys
WILDCARD == "*"

getChildren(key) ==
    CASE key = "r" -> <<"p">>
      [] key = "p" -> <<"a", "b">>
      [] OTHER -> <<>>

getParent(key) ==
    CASE key = "a" -> "p"
      [] key = "b" -> "p"
      [] OTHER -> "r"

isElement(key) == key \in ElementKeys
isText(key) == key \in TextKeys

getType(key) ==
    CASE key = "r" -> "root"
      [] key = "p" -> "paragraph"
      [] OTHER -> "text"

RECURSIVE Subtree(_)
Subtree(key) ==
    {key} \cup UNION {Subtree(getChildren(key)[i]) : i \in DOMAIN getChildren(key)}

\* composed / typed strings that the input signals carry
Values == {<<"x">>, <<"y">>}

NoCb == "none"

NoParams == [present |-> FALSE, chars |-> <<>>, text |-> <<>>, offset |-> 0]
NoInfo == [defined |-> FALSE, key |-> "", text |-> <<>>]
NoRange == [present |-> FALSE, anchor |-> [key |-> "", offset |-> 0],
            focus |-> [key |-> "", offset |-> 0]]

Min(x, y) == IF x < y THEN x ELSE y
Max(x, y) == IF x < y THEN y ELSE x

\* String.prototype.substring(from, to) on a character sequence (both ends clamped)
substring(s, from, to) ==
    LET f == Min(Max(from, 0), Len(s))
        t == Min(Max(to, 0), Len(s))
    IN SubSeq(s, Min(f, t) + 1, Max(f, t))

-----------------------------------------------------------------------------
\* Events that a handler leaves in the trace.

EvCall(name, t) == [type |-> "call", op |-> name, text |-> t]
EvCommit(ops) == [type |-> "commit", ops |-> ops]
EvNotify(node, ops) == [type |-> "notify", node |-> node, ops |-> ops]
EvVisit(node, ops) == [type |-> "visit", node |-> node, ops |-> ops]
EvUpdate(cb, node, ops, via) ==
    [type |-> "update", cb |-> cb, node |-> node, ops |-> ops, via |-> via]
EvComposition(cb, key, params, from, reg) ==
    [type |-> "composition", cb |-> cb, key |-> key, params |-> params, from |-> from,
     reg |-> reg]
EvCache(key, params) == [type |-> "cache", key |-> key, params |-> params]
EvEnter(depth, t) == [type |-> "enter", depth |-> depth, text |-> t]
EvOverflow(t) == [type |-> "overflow", text |-> t]

Log(st, ev) == [st EXCEPT !.trace = Append(@, ev)]

-----------------------------------------------------------------------------
\* The editor's state as one record, threaded through the nested calls of a
\* handler (scope: how far above the mutated node the Model raises its
\* notification for the batches of this handler).

RECURSIVE emitUpdate(_, _, _)
RECURSIVE emitChildren(_, _, _, _)
RECURSIVE emitCompositionUpdate(_, _)
RECURSIVE insertText(_, _)

\* --- Selection ---

isCollapsed(st) == ~st.range.present \/ st.range.anchor = st.range.focus

DocIndex(key) == CASE key = "a" -> 1 [] key = "b" -> 2 [] OTHER -> 0

Precedes(p, q) ==
    \/ DocIndex(p.key) < DocIndex(q.key)
    \/ DocIndex(p.key) = DocIndex(q.key) /\ p.offset <= q.offset

Collapsed(pos) == [present |-> TRUE, anchor |-> pos, focus |-> pos]

\* --- Model ---

getNode(st, key) == key \in Keys

getText(st, key) == st.text[key]

RECURSIVE Up(_, _)
Up(key, n) == IF n = 0 THEN key ELSE Up(getParent(key), n - 1)

CommonNode(S) ==
    IF \E k \in Keys : S = {k} THEN CHOOSE k \in Keys : S = {k}
    ELSE IF S \subseteq Subtree("p") THEN "p" ELSE "r"

\* EVENT_NODE_UPDATE: the Model raises one notification for an applied batch,
\* on the mutated node or on one of its ancestors.
ModelNotify(st, ops) ==
    IF ops = <<>> THEN st
    ELSE LET node == Up(CommonNode({ops[i].key : i \in DOMAIN ops}), st.scope)
         IN emitUpdate(Log(st, EvNotify(node, ops)), node, ops)

\* --- Change ---

hasCacheFormatting(st) == st.cacheFormatting

getRange(st) == st.range

\* the Operations that erase everything between anchor and focus, and the
\* buffers and the (collapsed) selection they leave
DeleteRange(st) ==
    LET r == st.range
        fwd == Precedes(r.anchor, r.focus)
        start == IF fwd THEN r.anchor ELSE r.focus
        end == IF fwd THEN r.focus ELSE r.anchor
        same == start.key = end.key
        sText == st.text[start.key]
        eText == st.text[end.key]
        sLen == IF same THEN end.offset - start.offset ELSE Len(sText) - start.offset
        sOps == IF sLen > 0
                THEN <<[type |-> "delete-text", key |-> start.key,
                        offset |-> start.offset, text |-> <<>>, length |-> sLen]>>
                ELSE <<>>
        eOps == IF ~same /\ end.offset > 0
                THEN <<[type |-> "delete-text", key |-> end.key,
                        offset |-> 0, text |-> <<>>, length |-> end.offset]>>
                ELSE <<>>
        newText == IF same
                   THEN [st.text EXCEPT ![start.key] =
                            substring(sText, 0, start.offset)
                              \o substring(sText, end.offset, Len(sText))]
                   ELSE [st.text EXCEPT ![start.key] = substring(sText, 0, start.offset),
                                        ![end.key] = substring(eText, end.offset, Len(eText))]
    IN [text |-> newText, range |-> Collapsed(start), ops |-> sOps \o eOps]

deleteContents(st) ==
    LET st1 == Log(st, EvCall("deleteContents", <<>>))
    IN IF isCollapsed(st1) THEN st1
       ELSE LET del == DeleteRange(st1)
                st2 == [st1 EXCEPT !.text = del.text, !.range = del.range]
            IN IF del.ops = <<>> THEN st2
               ELSE ModelNotify(Log(st2, EvCommit(del.ops)), del.ops)

insertText(st, t) ==
    LET st1 == Log(st, EvCall("insertText", t))
    IN IF ~st1.range.present \/ ~isText(st1.range.anchor.key) THEN st1
       ELSE LET del == IF isCollapsed(st1)
                       THEN [text |-> st1.text, range |-> st1.range, ops |-> <<>>]
                       ELSE DeleteRange(st1)
                key == del.range.anchor.key
                offset == del.range.anchor.offset
                old == del.text[key]
                ops == del.ops \o <<[type |-> "insert-text", key |-> key,
                                     offset |-> offset, text |-> t, length |-> Len(t)]>>
                st2 == [st1 EXCEPT
                          !.text = [del.text EXCEPT ![key] =
                                      substring(old, 0, offset) \o t
                                        \o substring(old, offset, Len(old))],
                          !.range = Collapsed([key |-> key, offset |-> offset + Len(t)]),
                          !.cacheFormatting = FALSE]
            IN ModelNotify(Log(st2, EvCommit(ops)), ops)

-----------------------------------------------------------------------------
\* --- Editor ---

\* ops.filter(op => op.key === child.getKey())
FilterOps(ops, key) == SelectSeq(ops, LAMBDA op : op.key = key)

Segments_AlwaysSuffix(nodeText, offset, t) ==
    <<[type |-> "text", text |-> substring(nodeText, 0, offset)],
      [type |-> "composition", text |-> t],
      [type |-> "text", text |-> substring(nodeText, offset, Len(nodeText))]>>

\* the chars of a composition update
Segments(nodeText, offset, t) ==
    <<[type |-> "text", text |-> substring(nodeText, 0, offset)],
      [type |-> "composition", text |-> t]>>
    \o (IF offset < Len(nodeText)
        THEN <<[type |-> "text", text |-> substring(nodeText, offset, Len(nodeText))]>>
        ELSE <<>>)

DeliverComposition_KeepFirst(st, key, params) ==
    LET callback == st.compositionUpdateMap[key]
    IN IF callback # NoCb
       THEN Log([st EXCEPT !.cache[key] = NoParams],
                EvComposition(callback, key, params, "update", callback))
       ELSE Log([st EXCEPT !.cache[key] = IF @.present THEN @ ELSE params],
                EvCache(key, params))

\* the subscriber of the key gets the params, or else the cache keeps them
DeliverComposition(st, key, params) ==
    LET callback == st.compositionUpdateMap[key]
    IN IF callback # NoCb
       THEN Log([st EXCEPT !.cache[key] = NoParams],
                EvComposition(callback, key, params, "update", callback))
       ELSE Log([st EXCEPT !.cache[key] = params], EvCache(key, params))

\* the range is read, the composing key and text are recorded, and the
\* segmentation of the anchor's Text node is delivered
SegmentAtAnchor(st, t) ==
    LET r == getRange(st)
        key == r.anchor.key
        offset == r.anchor.offset
        st2 == [st EXCEPT !.compositionInfo = [defined |-> TRUE, key |-> key, text |-> t]]
    IN IF ~r.present THEN st
       ELSE IF ~getNode(st2, key) \/ ~isText(key) THEN st2
       ELSE DeliverComposition(st2, key,
                [present |-> TRUE, chars |-> Segments(getText(st2, key), offset, t),
                 text |-> t, offset |-> offset])

\* a call of emitCompositionUpdate is entered, one level deeper than its caller
Enter(st, t) == Log([st EXCEPT !.depth = @ + 1], EvEnter(st.depth + 1, t))

\* ... and returns
Leave(st) == [st EXCEPT !.depth = @ - 1]

emitCompositionUpdate_FlushLast(st, t) ==
    IF hasCacheFormatting(st)
    THEN Leave(insertText(SegmentAtAnchor(Enter(st, t), t), <<>>))
    ELSE Leave(SegmentAtAnchor(Enter(st, t), t))

emitCompositionUpdate_AlwaysFlush(st, t) ==
    IF st.depth >= MaxNesting THEN Log(st, EvOverflow(t))
    ELSE Leave(SegmentAtAnchor(insertText(Enter(st, t), <<>>), t))

\* pending formatting is flushed by insertText(''), then the segmentation; a
\* chain of calls nested MaxNesting deep is not followed further
emitCompositionUpdate(st, t) ==
    IF st.depth >= MaxNesting THEN Log(st, EvOverflow(t))
    ELSE Leave(SegmentAtAnchor(IF hasCacheFormatting(st)
                               THEN insertText(Enter(st, t), <<>>)
                               ELSE Enter(st, t), t))

InvokeUpdateCallbacks_WildcardAsFallback(st, node, ops) ==
    LET callback == st.updateMap[node]
        star == st.updateMap[WILDCARD]
    IN IF callback # NoCb THEN Log(st, EvUpdate(callback, node, ops, "key"))
       ELSE IF star # NoCb THEN Log(st, EvUpdate(star, node, ops, "wildcard"))
       ELSE st

\* the key's callback, then the wildcard callback
InvokeUpdateCallbacks(st, node, ops) ==
    LET callback == st.updateMap[node]
        st1 == IF callback # NoCb THEN Log(st, EvUpdate(callback, node, ops, "key")) ELSE st
        star == st.updateMap[WILDCARD]
    IN IF star # NoCb THEN Log(st1, EvUpdate(star, node, ops, "wildcard")) ELSE st1

\* update composition position
RetriggerComposition(st, key) ==
    IF st.compositionInfo.defined /\ st.compositionInfo.key = key
    THEN emitCompositionUpdate(st, st.compositionInfo.text)
    ELSE st

emitChildren(st, children, ops, i) ==
    IF i > Len(children) THEN st
    ELSE emitChildren(emitUpdate(st, children[i], FilterOps(ops, children[i])),
                      children, ops, i + 1)

emitUpdate_ParentFirst(st, node, ops) ==
    RetriggerComposition(
        IF isElement(node)
        THEN emitChildren(InvokeUpdateCallbacks(Log(st, EvVisit(node, ops)), node, ops),
                          getChildren(node), ops, 1)
        ELSE InvokeUpdateCallbacks(Log(st, EvVisit(node, ops)), node, ops),
        node)

\* the children first, then the callbacks of the node, then the re-trigger
emitUpdate(st, node, ops) ==
    RetriggerComposition(
        InvokeUpdateCallbacks(
            Log(IF isElement(node) THEN emitChildren(st, getChildren(node), ops, 1) ELSE st,
                EvVisit(node, ops)),
            node, ops),
        node)

\* selection.on(EVENT_VALUE_CHANGE, ...)
RouteValue_AlwaysInsert(st, value) == insertText(st, value)

\* if(this.isComposition) ... else ...
RouteValue(st, value) ==
    IF st.isComposition THEN emitCompositionUpdate(st, value) ELSE insertText(st, value)

HandleValueChange_NoDelete(st, value) == RouteValue(st, value)

\* if(!selection.isCollapsed()) change.deleteContents(), then the routing
HandleValueChange(st, value) ==
    RouteValue(IF ~isCollapsed(st) THEN deleteContents(st) ELSE st, value)

\* selection.on(EVENT_COMPOSITION_START, ...)
HandleCompositionStart(st) == [st EXCEPT !.isComposition = TRUE]

DiscardComposition_KeepInfo(st) ==
    LET info == st.compositionInfo
        callback == IF info.defined THEN st.compositionUpdateMap[info.key] ELSE NoCb
    IN IF info.defined /\ callback # NoCb
       THEN Log(st, EvComposition(callback, info.key, NoParams, "end", callback))
       ELSE st

\* the subscriber of the composing key is told to discard, the record is dropped
DiscardComposition(st) ==
    LET info == st.compositionInfo
        callback == IF info.defined THEN st.compositionUpdateMap[info.key] ELSE NoCb
        st1 == IF info.defined /\ callback # NoCb
               THEN Log(st, EvComposition(callback, info.key, NoParams, "end", callback))
               ELSE st
    IN [st1 EXCEPT !.compositionInfo = NoInfo]

HandleCompositionEnd_CommitFirst(st, data) ==
    DiscardComposition(insertText([st EXCEPT !.isComposition = FALSE], data))

\* selection.on(EVENT_COMPOSITION_END, ...)
HandleCompositionEnd(st, data) ==
    insertText(DiscardComposition([st EXCEPT !.isComposition = FALSE]), data)

onUpdate(st, key, callback) == [st EXCEPT !.updateMap[key] = callback]

offUpdate(st, key) == [st EXCEPT !.updateMap[key] = NoCb]

onCompositionUpdate(st, key, callback) ==
    LET cache == st.cache[key]
        st1 == IF cache.present
               THEN Log(st, EvComposition(callback, key, cache, "replay",
                                          st.compositionUpdateMap[key]))
               ELSE st
    IN [st1 EXCEPT !.compositionUpdateMap[key] = callback]

offCompositionUpdate_KeepCache(st, key) == [st EXCEPT !.compositionUpdateMap[key] = NoCb]

offCompositionUpdate(st, key) ==
    [st EXCEPT !.cache[key] = NoParams, !.compositionUpdateMap[key] = NoCb]

\* destroy(): the maps that it clears
destroy(st) == [st EXCEPT !.updateMap = [k \in DOMAIN @ |-> NoCb]]

\* --- plugins ---

Types == {"root", "paragraph", "text"}

\* new Editor(options): the instance registry taken from the global one
ConstructPlugins(global, options) ==
    IF options.hasEnabled
    THEN {name \in options.enabled : name \in global}
    ELSE {name \in global : ~options.hasDisabled \/ name \in options.disabled}

EvPluginNotFound(type) == [type |-> "pluginNotFound", plugin |-> type]
EvRender(type, node) == [type |-> "render", plugin |-> type, node |-> node]

RECURSIVE renderPlugin(_, _, _)
RECURSIVE renderChildren(_, _, _, _, _)

\* children.map(child => this.renderPlugin(child)): an exception ends the map
renderChildren(pm, children, i, log, out) ==
    IF i > Len(children) THEN [threw |-> FALSE, log |-> log, out |-> out]
    ELSE LET r == renderPlugin(pm, children[i], log)
         IN IF r.threw THEN r
            ELSE renderChildren(pm, children, i + 1, r.log, Append(out, r.out))

\* a registered plugin renders its node around next(node); without a plugin
\* the diagnostic is reported and plugin.render(...) on the absent plugin throws
renderPlugin(pm, node, log) ==
    LET type == getType(node)
    IN IF type \notin pm
       THEN [threw |-> TRUE, log |-> Append(log, EvPluginNotFound(type)), out |-> <<>>]
       ELSE LET log1 == Append(log, EvRender(type, node))
                next == IF ~isElement(node)
                        THEN [threw |-> FALSE, log |-> log1, out |-> <<>>]
                        ELSE renderChildren(pm, getChildren(node), 1, log1, <<>>)
            IN IF next.threw THEN next
               ELSE [threw |-> FALSE, log |-> next.log,
                     out |-> <<[plugin |-> type, node |-> node, children |-> next.out]>>]

-----------------------------------------------------------------------------
\* The state machine.

Editor ==
    [text |-> text, range |-> range, cacheFormatting |-> cacheFormatting,
     isComposition |-> isComposition, compositionInfo |-> compositionInfo,
     updateMap |-> updateMap, compositionUpdateMap |-> compositionUpdateMap,
     cache |-> cacheCompositionUpdate, scope |-> 0, depth |-> 0, trace |-> <<>>]

RECURSIVE Holding(_, _, _, _)
\* the subscribers that hold a segmentation after the calls of a handler: a
\* segmentation received while composing is held until the absent payload
Holding(S, tr, i, composing) ==
    IF i > Len(tr) THEN S
    ELSE Holding(IF tr[i].type # "composition" THEN S
                 ELSE IF ~tr[i].params.present THEN S \ {tr[i].key}
                 ELSE IF composing THEN S \cup {tr[i].key}
                 ELSE S,
                 tr, i + 1, composing)

Becomes(st) ==
    /\ text' = st.text
    /\ range' = st.range
    /\ cacheFormatting' = st.cacheFormatting
    /\ isComposition' = st.isComposition
    /\ compositionInfo' = st.compositionInfo
    /\ updateMap' = st.updateMap
    /\ compositionUpdateMap' = st.compositionUpdateMap
    /\ cacheCompositionUpdate' = st.cache
    /\ trace' = st.trace
    /\ holding' = {k \in Holding(IF st.isComposition /\ ~isComposition THEN {} ELSE holding,
                                  st.trace, 1, st.isComposition) :
                      st.compositionUpdateMap[k] # NoCb}

NoOptions == [hasEnabled |-> FALSE, enabled |-> {}, hasDisabled |-> FALSE, disabled |-> {}]

\* the handled signal, with the state it arrived in
Signal(name, key, cb, value, node, ops) ==
    [name |-> name, key |-> key, cb |-> cb, value |-> value, node |-> node, ops |-> ops,
     threw |-> FALSE, out |-> <<>>, plugins |-> {}, options |-> NoOptions, global |-> {},
     pre |-> [text |-> text, range |-> range, cacheFormatting |-> cacheFormatting,
              isComposition |-> isComposition, compositionInfo |-> compositionInfo,
              updateMap |-> updateMap, compositionUpdateMap |-> compositionUpdateMap,
              cache |-> cacheCompositionUpdate]]

Scopes == 0 .. 1

\* committed strings that a composition-end carries (none: the composition is abandoned)
Commits == {<<"x">>, <<>>}

Fits(value) == \A k \in TextKeys : Len(text[k]) + Len(value) <= MaxLen

Pos(key, offset) == [key |-> key, offset |-> offset]

\* the selections that the user makes: a caret anywhere in a Text node, all of
\* "a" selected forwards or backwards, and a selection that runs from "a" into "b"
Selections ==
    {[anchor |-> Pos(k, n), focus |-> Pos(k, n)] : k \in TextKeys, n \in 0 .. MaxLen}
    \cup {[anchor |-> Pos("a", 0), focus |-> Pos("a", Len(text["a"]))],
          [anchor |-> Pos("a", Len(text["a"])), focus |-> Pos("a", 0)],
          [anchor |-> Pos("a", 0), focus |-> Pos("b", Len(text["b"]))]}

ValidPosition(pos) == pos.offset <= Len(text[pos.key])

Init ==
    /\ text = [k \in TextKeys |-> IF k = "a" THEN <<"c", "a">> ELSE <<"f">>]
    /\ range = NoRange
    /\ cacheFormatting = FALSE
    /\ isComposition = FALSE
    /\ compositionInfo = NoInfo
    /\ updateMap = [k \in Keys \cup {WILDCARD} |-> NoCb]
    /\ compositionUpdateMap = [k \in Keys |-> NoCb]
    /\ cacheCompositionUpdate = [k \in Keys |-> NoParams]
    /\ globalPlugins = {}
    /\ pluginMap = {}
    /\ destroyed = FALSE
    /\ steps = 0
    /\ signal = Signal("create", "", NoCb, <<>>, "", <<>>)
    /\ trace = <<>>
    /\ holding = {}

\* EVENT_VALUE_CHANGE from the Selection
ValueChange(value, scope) ==
    /\ ~destroyed
    /\ Fits(value)
    /\ Becomes(HandleValueChange([Editor EXCEPT !.scope = scope], value))
    /\ signal' = Signal("valueChange", "", NoCb, value, "", <<>>)
    /\ UNCHANGED <<globalPlugins, pluginMap, destroyed>>

\* EVENT_COMPOSITION_START from the Selection
CompositionStart ==
    /\ ~destroyed
    /\ ~isComposition
    /\ Becomes(HandleCompositionStart(Editor))
    /\ signal' = Signal("compositionStart", "", NoCb, <<>>, "", <<>>)
    /\ UNCHANGED <<globalPlugins, pluginMap, destroyed>>

\* EVENT_COMPOSITION_END from the Selection
CompositionEnd(data, scope) ==
    /\ ~destroyed
    /\ isComposition
    /\ Fits(data)
    /\ Becomes(HandleCompositionEnd([Editor EXCEPT !.scope = scope], data))
    /\ signal' = Signal("compositionEnd", "", NoCb, data, "", <<>>)
    /\ UNCHANGED <<globalPlugins, pluginMap, destroyed>>

\* EVENT_NODE_UPDATE from the Model, for a batch that no handler of the editor
\* produced (a formatting change)
NodeUpdate(node, ops) ==
    /\ ~destroyed
    /\ Becomes(emitUpdate(Log(Editor, EvNotify(node, ops)), node, ops))
    /\ signal' = Signal("nodeUpdate", "", NoCb, <<>>, node, ops)
    /\ UNCHANGED <<globalPlugins, pluginMap, destroyed>>

\* the user (or the host) moves the selection
SetSelection(anchor, focus) ==
    /\ ~destroyed
    /\ ValidPosition(anchor) /\ ValidPosition(focus)
    /\ Becomes([Editor EXCEPT !.range = [present |-> TRUE, anchor |-> anchor, focus |-> focus]])
    /\ signal' = Signal("setSelection", "", NoCb, <<>>, "", <<>>)
    /\ UNCHANGED <<globalPlugins, pluginMap, destroyed>>

\* the caret is put on an Element boundary
SetElementSelection(key) ==
    /\ ~destroyed
    /\ Becomes([Editor EXCEPT !.range = Collapsed([key |-> key, offset |-> 0])])
    /\ signal' = Signal("setSelection", key, NoCb, <<>>, "", <<>>)
    /\ UNCHANGED <<globalPlugins, pluginMap, destroyed>>

ClearSelection ==
    /\ ~destroyed
    /\ range.present
    /\ Becomes([Editor EXCEPT !.range = NoRange])
    /\ signal' = Signal("clearSelection", "", NoCb, <<>>, "", <<>>)
    /\ UNCHANGED <<globalPlugins, pluginMap, destroyed>>

\* a format is chosen at a collapsed caret: queued for the next inserted character
QueueFormatting ==
    /\ ~destroyed
    /\ ~cacheFormatting
    /\ Becomes([Editor EXCEPT !.cacheFormatting = TRUE])
    /\ signal' = Signal("queueFormatting", "", NoCb, <<>>, "", <<>>)
    /\ UNCHANGED <<globalPlugins, pluginMap, destroyed>>

OnUpdate(key, cb) ==
    /\ Becomes(onUpdate(Editor, key, cb))
    /\ signal' = Signal("onUpdate", key, cb, <<>>, "", <<>>)
    /\ UNCHANGED <<globalPlugins, pluginMap, destroyed>>

OffUpdate(key) ==
    /\ Becomes(offUpdate(Editor, key))
    /\ signal' = Signal("offUpdate", key, NoCb, <<>>, "", <<>>)
    /\ UNCHANGED <<globalPlugins, pluginMap, destroyed>>

OnCompositionUpdate(key, cb) ==
    /\ Becomes(onCompositionUpdate(Editor, key, cb))
    /\ signal' = Signal("onCompositionUpdate", key, cb, <<>>, "", <<>>)
    /\ UNCHANGED <<globalPlugins, pluginMap, destroyed>>

OffCompositionUpdate(key) ==
    /\ Becomes(offCompositionUpdate(Editor, key))
    /\ signal' = Signal("offCompositionUpdate", key, NoCb, <<>>, "", <<>>)
    /\ UNCHANGED <<globalPlugins, pluginMap, destroyed>>

Destroy ==
    /\ ~destroyed
    /\ Becomes(destroy(Editor))
    /\ pluginMap' = {}
    /\ destroyed' = TRUE
    /\ signal' = Signal("destroy", "", NoCb, <<>>, "", <<>>)
    /\ UNCHANGED globalPlugins

\* batches of a formatting change
AttributeOp(k) ==
    [type |-> "set-attribute", key |-> k, offset |-> 0, text |-> <<>>, length |-> 0]

AttributeOps(S) == {AttributeOp(k) : k \in S}

Batches(S) == UNION {[1 .. n -> AttributeOps(S)] : n \in 1 .. MaxOps}

\* formatting changes of one Operation: on a Text node, or seen from an ancestor
FormatUpdates ==
    {[node |-> k, ops |-> <<AttributeOp(k)>>] : k \in TextKeys}
    \cup {[node |-> "p", ops |-> <<AttributeOp("a")>>]}

\* Editor.registerPlugin (static)
StaticRegisterPlugin(type) ==
    /\ globalPlugins' = globalPlugins \cup {type}
    /\ signal' = Signal("staticRegisterPlugin", type, NoCb, <<>>, "", <<>>)
    /\ trace' = <<>>
    /\ UNCHANGED <<text, range, cacheFormatting, isComposition, compositionInfo, updateMap,
                   compositionUpdateMap, cacheCompositionUpdate, pluginMap, destroyed, holding>>

\* Editor.create(options): a new editor replaces the one at hand
Create(options) ==
    /\ pluginMap' = ConstructPlugins(globalPlugins, options)
    /\ text' = [k \in TextKeys |-> IF k = "a" THEN <<"c", "a">> ELSE <<"f">>]
    /\ range' = NoRange
    /\ cacheFormatting' = FALSE
    /\ isComposition' = FALSE
    /\ compositionInfo' = NoInfo
    /\ updateMap' = [k \in Keys \cup {WILDCARD} |-> NoCb]
    /\ compositionUpdateMap' = [k \in Keys |-> NoCb]
    /\ cacheCompositionUpdate' = [k \in Keys |-> NoParams]
    /\ destroyed' = FALSE
    /\ signal' = [Signal("create", "", NoCb, <<>>, "", <<>>) EXCEPT
                     !.options = options, !.global = globalPlugins]
    /\ trace' = <<>>
    /\ holding' = {}
    /\ UNCHANGED globalPlugins

\* editor.registerPlugin(name, options)
RegisterPlugin(name) ==
    /\ pluginMap' = pluginMap \cup {name}
    /\ signal' = Signal("registerPlugin", name, NoCb, <<>>, "", <<>>)
    /\ trace' = <<>>
    /\ UNCHANGED <<text, range, cacheFormatting, isComposition, compositionInfo, updateMap,
                   compositionUpdateMap, cacheCompositionUpdate, globalPlugins, destroyed,
                   holding>>

\* editor.renderPlugin(node)
RenderPlugin(node) ==
    /\ LET r == renderPlugin(pluginMap, node, <<>>)
       IN /\ trace' = r.log
          /\ signal' = [Signal("renderPlugin", "", NoCb, <<>>, node, <<>>) EXCEPT
                           !.threw = r.threw, !.out = r.out, !.plugins = pluginMap]
    /\ UNCHANGED <<text, range, cacheFormatting, isComposition, compositionInfo, updateMap,
                   compositionUpdateMap, cacheCompositionUpdate, globalPlugins, pluginMap,
                   destroyed, holding>>

Options ==
    {NoOptions}
    \cup {[NoOptions EXCEPT !.hasEnabled = TRUE, !.enabled = S] : S \in SUBSET Types}
    \cup {[NoOptions EXCEPT !.hasDisabled = TRUE, !.disabled = S] : S \in SUBSET Types}

\* a run of the editor handles at most MaxSteps signals and API calls
Bounded(A) == steps < MaxSteps /\ steps' = steps + 1 /\ A

Next ==
    \/ \E v \in Values, sc \in Scopes : Bounded(ValueChange(v, sc))
    \/ Bounded(CompositionStart)
    \/ \E d \in Commits, sc \in Scopes : Bounded(CompositionEnd(d, sc))
    \/ \E u \in FormatUpdates : Bounded(NodeUpdate(u.node, u.ops))
    \/ \E sel \in Selections : Bounded(SetSelection(sel.anchor, sel.focus))
    \/ Bounded(SetElementSelection("p"))
    \/ Bounded(ClearSelection)
    \/ Bounded(QueueFormatting)
    \/ \E k \in TextKeys : Bounded(OnCompositionUpdate(k, "c1"))
    \/ \E k \in TextKeys : Bounded(OffCompositionUpdate(k))
    \/ Bounded(Destroy)

Spec == Init /\ [][Next]_vars

-----------------------------------------------------------------------------
\* The update fan-out on its own: a subscriber on any key, another on the
\* wildcard, and notifications with batches of up to MaxOps Operations.

NextFanout ==
    \/ \E k \in Keys : OnUpdate(k, "u1") /\ UNCHANGED steps
    \/ OnUpdate(WILDCARD, "u2") /\ UNCHANGED steps
    \/ \E k \in Keys \cup {WILDCARD} : OffUpdate(k) /\ UNCHANGED steps
    \/ \E n \in Keys : \E ops \in Batches(Subtree(n)) :
          NodeUpdate(n, ops) /\ UNCHANGED steps

SpecFanout == Init /\ [][NextFanout]_vars

-----------------------------------------------------------------------------
\* The plugin registries and the render dispatch.

NextRender ==
    \/ \E t \in Types : Bounded(StaticRegisterPlugin(t))
    \/ \E o \in Options : Bounded(Create(o))
    \/ \E t \in Types : Bounded(RegisterPlugin(t))
    \/ \E n \in Keys : Bounded(RenderPlugin(n))
    \/ Bounded(Destroy)

SpecRender == Init /\ [][NextRender]_vars

-----------------------------------------------------------------------------
\* The subscriptions: two callbacks of each kind that replace one another on
\* the Text node "a" and on its parent, around one composition at the start
\* of "a" and formatting changes seen from the paragraph.

UpdateCallbacks == {"u1", "u2"}
CompositionCallbacks == {"c1", "c2"}

NextSubs ==
    \/ \E k \in {"a", "p"}, cb \in UpdateCallbacks : Bounded(OnUpdate(k, cb))
    \/ \E k \in {"a", "p"} : Bounded(OffUpdate(k))
    \/ \E cb \in CompositionCallbacks : Bounded(OnCompositionUpdate("a", cb))
    \/ Bounded(OffCompositionUpdate("a"))
    \/ Bounded(SetSelection(Pos("a", 0), Pos("a", 0)))
    \/ Bounded(CompositionStart)
    \/ Bounded(ValueChange(<<"x">>, 0))
    \/ Bounded(CompositionEnd(<<"x">>, 0))
    \/ Bounded(NodeUpdate("p", <<AttributeOp("a")>>))

SpecSubs == Init /\ [][NextSubs]_vars

-----------------------------------------------------------------------------
\* One composition followed to its end: a subscriber on either Text node, the
\* caret put at the start of either Text node, composition text arriving, a
\* formatting change, and the composition abandoned or committed.

\* such a run handles at most MaxDiscardSteps signals and API calls
DiscardBounded(A) == steps < MaxDiscardSteps /\ steps' = steps + 1 /\ A

NextDiscard ==
    \/ \E k \in TextKeys : DiscardBounded(OnCompositionUpdate(k, "c1"))
    \/ \E k \in TextKeys : DiscardBounded(SetSelection(Pos(k, 0), Pos(k, 0)))
    \/ DiscardBounded(CompositionStart)
    \/ DiscardBounded(ValueChange(<<"x">>, 0))
    \/ DiscardBounded(NodeUpdate("a", <<AttributeOp("a")>>))
    \/ \E d \in Commits : DiscardBounded(CompositionEnd(d, 0))

SpecDiscard == Init /\ [][NextDiscard]_vars

-----------------------------------------------------------------------------
\* Reading the trace of the last handler.

Pre == signal.pre

IsSegmentation(e) ==
    \/ e.type = "cache"
    \/ e.type = "composition" /\ e.params.present

IsCall(e, name) == e.type = "call" /\ e.op = name

DeliveryIndices == {i \in DOMAIN trace : IsSegmentation(trace[i])}

DeliveriesFor(key) == {i \in DeliveryIndices : trace[i].key = key}

Last(S) == CHOOSE i \in S : \A j \in S : j <= i

LastDelivery == trace[Last(DeliveryIndices)]

RECURSIVE TextOf(_)
TextOf(chars) ==
    IF chars = <<>> THEN <<>>
    ELSE (IF Head(chars).type = "text" THEN Head(chars).text ELSE <<>>) \o TextOf(Tail(chars))

CompositionText == signal.name = "valueChange" /\ Pre.isComposition

-----------------------------------------------------------------------------
C2_SegmentationAtAnchor ==
    (CompositionText /\ range.present /\ isText(range.anchor.key)) =>
        LET key == range.anchor.key
            offset == range.anchor.offset
            s == text[key]
        IN /\ offset \in 0 .. Len(s)
           /\ DeliveryIndices # {}
           /\ LastDelivery.key = key
           /\ LastDelivery.params.offset = offset
           /\ LastDelivery.params.text = signal.value
           /\ LET chars == LastDelivery.params.chars
              IN /\ Len(chars) = IF offset < Len(s) THEN 3 ELSE 2
                 /\ chars[1] = [type |-> "text", text |-> SubSeq(s, 1, offset)]
                 /\ chars[2] = [type |-> "composition", text |-> signal.value]
                 /\ offset < Len(s) =>
                       chars[3] = [type |-> "text", text |-> SubSeq(s, offset + 1, Len(s))]
                 /\ TextOf(chars) = s

C2_Witness ==
    /\ CompositionText
    /\ DeliveryIndices # {}
    /\ Len(LastDelivery.params.chars) = 3
    /\ LastDelivery.params.chars[1].text # <<>>
    /\ LastDelivery.type = "composition"

\* C3 (as claimed): a value-change received while composing commits no
\* Operation: the tree is as it was.
C3_NoOperationWhileComposing ==
    CompositionText =>
        /\ text = Pre.text
        /\ \A i \in DOMAIN trace : trace[i].type # "commit"

\* C3 (amended): a value-change received while composing never commits its
\* composed text: insertText is called at most with the empty string (the
\* flush of pending formatting), every committed Operation is a deletion or
\* an empty insertion, and no Text node grows; the only mutation is the
\* deletion of a non-collapsed selection.
C3_ComposedTextNotCommitted ==
    CompositionText =>
        /\ \A i \in DOMAIN trace :
              /\ IsCall(trace[i], "insertText") => trace[i].text = <<>>
              /\ trace[i].type = "commit" =>
                    \A n \in DOMAIN trace[i].ops :
                       \/ trace[i].ops[n].type = "delete-text"
                       \/ trace[i].ops[n].type = "insert-text" /\ trace[i].ops[n].text = <<>>
        /\ \A k \in TextKeys : Len(text[k]) <= Len(Pre.text[k])
        /\ (text # Pre.text) => ~(Pre.range.anchor = Pre.range.focus)

C3_Witness ==
    /\ CompositionText
    /\ \E i \in DOMAIN trace :
          /\ trace[i].type = "commit"
          /\ \E n \in DOMAIN trace[i].ops : trace[i].ops[n].type = "delete-text"
    /\ DeliveryIndices # {}

\* C4: a segmentation computed for a key without subscriber is cached, the
\* cache holding the latest one; onCompositionUpdate(K, cb) calls cb once with
\* the cached segmentation while the earlier subscriber (none) is still the
\* registered one, and then records cb; a segmentation computed for a key with
\* a subscriber goes to that subscriber and leaves nothing cached for the key.
C4_CacheAndReplay ==
    /\ \A i \in DOMAIN trace :
          trace[i].type = "cache" => Pre.compositionUpdateMap[trace[i].key] = NoCb
    /\ signal.name # "onCompositionUpdate" =>
          \A k \in Keys :
             DeliveriesFor(k) # {} =>
                LET last == trace[Last(DeliveriesFor(k))]
                IN IF last.type = "cache"
                   THEN cacheCompositionUpdate[k] = last.params
                   ELSE /\ ~cacheCompositionUpdate[k].present
                        /\ last.cb = compositionUpdateMap[k]
    /\ signal.name = "onCompositionUpdate" =>
          /\ compositionUpdateMap[signal.key] = signal.cb
          /\ trace = IF Pre.cache[signal.key].present
                     THEN <<EvComposition(signal.cb, signal.key, Pre.cache[signal.key],
                                          "replay", Pre.compositionUpdateMap[signal.key])>>
                     ELSE <<>>

C4_Witness ==
    /\ signal.name = "onCompositionUpdate"
    /\ Pre.compositionUpdateMap[signal.key] = NoCb
    /\ Pre.cache[signal.key].present
    /\ Len(trace) = 1
    /\ trace[1].params.text = Pre.compositionInfo.text

\* C5: when destroy() returns no callback registration remains: the update
\* map, the composition-update map and the composition cache are empty.
C5_DestroyLeavesNoRegistration ==
    signal.name = "destroy" =>
        /\ \A k \in DOMAIN updateMap : updateMap[k] = NoCb
        /\ \A k \in DOMAIN compositionUpdateMap : compositionUpdateMap[k] = NoCb
        /\ \A k \in DOMAIN cacheCompositionUpdate : ~cacheCompositionUpdate[k].present

\* C6: in the fan-out of a notification (N, ops) the subscriber on N is called
\* with the whole batch and the subscriber on a descendant key K, at any
\* depth, with exactly the Operations of ops whose key is K.
C6_DescendantsReceiveTheirOperations ==
    signal.name = "nodeUpdate" =>
        \A n \in Subtree(signal.node) :
           Pre.updateMap[n] # NoCb =>
              \E i \in DOMAIN trace :
                 trace[i] = EvUpdate(Pre.updateMap[n], n,
                                     IF n = signal.node THEN signal.ops
                                     ELSE SelectSeq(signal.ops, LAMBDA op : op.key = n),
                                     "key")

\* C7: with a wildcard subscriber, a notification for node N calls it exactly
\* once for every node of N's subtree (N included) and for no other node,
\* with the node and the Operations of that visit, right after the visited
\* key's own subscriber when there is one.
C7_WildcardCalledForEveryVisitedNode ==
    (signal.name = "nodeUpdate" /\ Pre.updateMap[WILDCARD] # NoCb) =>
        LET star == Pre.updateMap[WILDCARD]
            StarCalls(n) == {i \in DOMAIN trace :
                               /\ trace[i].type = "update"
                               /\ trace[i].via = "wildcard"
                               /\ trace[i].node = n}
        IN /\ \A n \in Keys :
                 Cardinality(StarCalls(n)) = IF n \in Subtree(signal.node) THEN 1 ELSE 0
           /\ \A i \in DOMAIN trace :
                 trace[i].type = "visit" =>
                    LET n == trace[i].node
                        own == Pre.updateMap[n]
                        j == IF own # NoCb THEN i + 2 ELSE i + 1
                    IN /\ j <= Len(trace)
                       /\ trace[j] = EvUpdate(star, n, trace[i].ops, "wildcard")
                       /\ own # NoCb => trace[i + 1] = EvUpdate(own, n, trace[i].ops, "key")

C7_Witness ==
    /\ signal.name = "nodeUpdate"
    /\ signal.node = "r"
    /\ Pre.updateMap[WILDCARD] # NoCb
    /\ Pre.updateMap["a"] # NoCb
    /\ Pre.updateMap["p"] = NoCb
    /\ Len(trace) > Cardinality(Keys)

\* C8: rendering a node whose type has no plugin does not throw: the diagnostic
\* is reported, and the nodes of the rendered subtree whose type has a plugin
\* (and whose parent was rendered) are still rendered.
C8_MissingPluginDoesNotThrow ==
    signal.name = "renderPlugin" =>
        /\ ~signal.threw
        /\ \A n \in Subtree(signal.node) :
              getType(n) \notin signal.plugins =>
                 \E i \in DOMAIN trace : trace[i] = EvPluginNotFound(getType(n))
        /\ \A n \in Subtree(signal.node) :
              (/\ getType(n) \in signal.plugins
               /\ n = signal.node \/ getType(getParent(n)) \in signal.plugins) =>
                 \E i \in DOMAIN trace : trace[i] = EvRender(getType(n), n)

\* C9: while composing the Text node K with composed text t, every visit of K
\* by an update notification delivers for K (to its subscriber, or to the
\* cache) a segmentation of t over K's text at the current anchor offset (the
\* anchor being on some Text node), K staying the composing key; a
\* notification that does not visit K, or that arrives while Idle, delivers
\* nothing.
C9_RetriggerDeliversForComposingKey ==
    signal.name = "nodeUpdate" =>
        LET info == Pre.compositionInfo
            visited == \E i \in DOMAIN trace :
                          trace[i].type = "visit" /\ trace[i].node = info.key
        IN /\ (/\ info.defined /\ isText(info.key) /\ visited
               /\ range.present /\ isText(range.anchor.key)) =>
                 /\ compositionInfo = info
                 /\ DeliveriesFor(info.key) # {}
                 /\ LET last == trace[Last(DeliveriesFor(info.key))]
                    IN /\ last.params.text = info.text
                       /\ last.params.offset = range.anchor.offset
                       /\ TextOf(last.params.chars) = text[info.key]
           /\ (~info.defined \/ ~visited) => DeliveryIndices = {}

\* C10: when composition text arrives with formatting pending, insertText('')
\* is called exactly once, before any segmentation of that signal is computed,
\* and the last segmentation carries the arrived string and is the one of the
\* anchor and node text that the flush leaves; with no formatting pending the
\* composition update calls insertText not at all.
C10_FlushOnceBeforeSegmentation ==
    CompositionText =>
        LET calls == {i \in DOMAIN trace : IsCall(trace[i], "insertText")}
        IN /\ \A i \in calls : trace[i].text = <<>>
           /\ Cardinality(calls) = IF Pre.cacheFormatting THEN 1 ELSE 0
           /\ \A i \in calls, j \in DeliveryIndices : i < j
           /\ DeliveryIndices # {} =>
                 /\ LastDelivery.params.text = signal.value
                 /\ LastDelivery.key = range.anchor.key
                 /\ LastDelivery.params.offset = range.anchor.offset
                 /\ TextOf(LastDelivery.params.chars) = text[range.anchor.key]

C10_Witness ==
    /\ CompositionText
    /\ Pre.cacheFormatting
    /\ ~cacheFormatting
    /\ Pre.compositionInfo.defined
    /\ Pre.compositionInfo.text # signal.value
    /\ \E i \in DeliveryIndices : trace[i].params.text = Pre.compositionInfo.text
    /\ LastDelivery.params.text = signal.value

\* C11: composition-start makes the buffer Composing and captures the Text
\* node at the anchor: right after composition-start the buffer holds that
\* node's key, and for the rest of the session the composing key stays the one
\* it was, wherever the anchor moves.
C11_StartCapturesAnchorNode ==
    /\ (signal.name = "compositionStart" /\ Pre.range.present
        /\ isText(Pre.range.anchor.key)) =>
          /\ isComposition
          /\ compositionInfo.defined
          /\ compositionInfo.key = Pre.range.anchor.key
    /\ (Pre.isComposition /\ isComposition /\ Pre.compositionInfo.defined) =>
          /\ compositionInfo.defined
          /\ compositionInfo.key = Pre.compositionInfo.key

\* C12: in the fan-out of one notification for N the key callbacks run bottom-up
\* within the handler: every subscribed node of N's subtree is called exactly
\* once, each descendant's callback before the callback of any of its
\* ancestors, and N's own callback last among the key callbacks.
C12_FanoutIsBottomUp ==
    signal.name = "nodeUpdate" =>
        LET KeyCalls(n) == {i \in DOMAIN trace :
                              /\ trace[i].type = "update"
                              /\ trace[i].via = "key"
                              /\ trace[i].node = n}
            AllKeyCalls == UNION {KeyCalls(n) : n \in Keys}
        IN /\ \A n \in Keys :
                 Cardinality(KeyCalls(n)) =
                    IF n \in Subtree(signal.node) /\ Pre.updateMap[n] # NoCb THEN 1 ELSE 0
           /\ \A n \in Subtree(signal.node) : \A d \in Subtree(n) \ {n} :
                 \A i \in KeyCalls(n), j \in KeyCalls(d) : j < i
           /\ \A i \in KeyCalls(signal.node), j \in AllKeyCalls : j <= i

C12_Witness ==
    /\ signal.name = "nodeUpdate"
    /\ signal.node = "r"
    /\ \A n \in {"r", "p", "b"} : Pre.updateMap[n] # NoCb
    /\ \E i, j, k \in DOMAIN trace :
          /\ i < j /\ j < k
          /\ trace[i].type = "update" /\ trace[i].node = "b"
          /\ trace[j].type = "update" /\ trace[j].node = "p"
          /\ trace[k].type = "update" /\ trace[k].node = "r"

\* C13: the plugin set of a new editor is a filter of the global registry:
\* with enabledPlugins the registered plugins named in it, with only
\* disabledPlugins the registered plugins not named in it, with neither the
\* whole registry.
C13_PluginsAreFilterOfRegistry ==
    signal.name = "create" =>
        LET options == signal.options
        IN pluginMap =
              IF options.hasEnabled
              THEN {name \in signal.global : name \in options.enabled}
              ELSE IF options.hasDisabled
              THEN {name \in signal.global : name \notin options.disabled}
              ELSE signal.global

\* C14: a value-change with a non-collapsed selection calls deleteContents once
\* (not at all with a collapsed one), the selection is collapsed afterwards
\* and only that call deletes; while composing insertText is never called
\* with the value (at most with the empty flush), otherwise insertText(value)
\* is called exactly once, after the deletion, and commits one insertion.
\* The composition-end handler calls insertText exactly once, with the
\* committed text, and so commits the composed text once per session (given a
\* selection on a Text node; without one insertText has nothing to act on).
C14_ValueRouting ==
    LET Calls(name) == {i \in DOMAIN trace : IsCall(trace[i], name)}
        Deleting == {i \in DOMAIN trace :
                        /\ trace[i].type = "commit"
                        /\ \E n \in DOMAIN trace[i].ops : trace[i].ops[n].type = "delete-text"}
        Inserting(t) == {i \in DOMAIN trace :
                           /\ trace[i].type = "commit"
                           /\ \E n \in DOMAIN trace[i].ops :
                                 /\ trace[i].ops[n].type = "insert-text"
                                 /\ trace[i].ops[n].text = t}
        selected == Pre.range.present /\ Pre.range.anchor # Pre.range.focus
        onText == Pre.range.present /\ isText(Pre.range.anchor.key)
    IN /\ signal.name = "valueChange" =>
            /\ Cardinality(Calls("deleteContents")) = IF selected THEN 1 ELSE 0
            /\ Cardinality(Deleting) <= Cardinality(Calls("deleteContents"))
            /\ \A i \in Deleting : trace[i].ops # <<>> /\
                  \A n \in DOMAIN trace[i].ops : trace[i].ops[n].type = "delete-text"
            /\ selected => range.present /\ range.anchor = range.focus
            /\ \A i \in Calls("deleteContents"), j \in Calls("insertText") : i < j
            /\ IF Pre.isComposition
               THEN /\ \A i \in Calls("insertText") : trace[i].text = <<>>
                    /\ Inserting(signal.value) = {}
               ELSE /\ Cardinality(Calls("insertText")) = 1
                    /\ \A i \in Calls("insertText") : trace[i].text = signal.value
                    /\ Cardinality(Inserting(signal.value)) = IF onText THEN 1 ELSE 0
       /\ signal.name = "compositionEnd" =>
            /\ Cardinality(Calls("insertText")) = 1
            /\ \A i \in Calls("insertText") : trace[i].text = signal.value
            /\ Cardinality(Inserting(signal.value)) = IF onText THEN 1 ELSE 0
            /\ Calls("deleteContents") = {}

C14_Witness ==
    /\ signal.name = "valueChange"
    /\ ~Pre.isComposition
    /\ Pre.range.present /\ Pre.range.anchor.key # Pre.range.focus.key
    /\ \E i, j, k \in DOMAIN trace :
          /\ i < j /\ j < k
          /\ IsCall(trace[i], "deleteContents")
          /\ trace[j].type = "commit" /\ Len(trace[j].ops) = 2
          /\ trace[k].type = "commit" /\ trace[k].ops[1].text = signal.value
    /\ Len(text["a"]) = 1

\* C15: the handling of one signal is a bounded chain of calls: the nesting of
\* emitCompositionUpdate through insertText('') and emitUpdate never goes
\* beyond two levels, the second level is reached only below a flush of
\* pending formatting, that flush leaves no formatting pending, and at most
\* one flush per signal commits (and so notifies).
C15_SignalHandlingIsBounded ==
    LET Enters == {i \in DOMAIN trace : trace[i].type = "enter"}
        Flushes == {i \in DOMAIN trace :
                      /\ IsCall(trace[i], "insertText")
                      /\ i > 1 /\ trace[i - 1].type = "enter"}
        Committed == {i \in Flushes : i < Len(trace) /\ trace[i + 1].type = "commit"}
    IN /\ \A i \in DOMAIN trace : trace[i].type # "overflow"
       /\ \A i \in Enters : trace[i].depth <= 2
       /\ \A i \in Enters : trace[i].depth = 2 => \E j \in Committed : j < i
       /\ Cardinality(Committed) <= 1
       /\ Flushes # {} => Pre.cacheFormatting
       /\ Committed # {} => ~cacheFormatting

C15_Witness ==
    /\ signal.name = "valueChange"
    /\ Pre.cacheFormatting
    /\ \E i, j \in DOMAIN trace :
          /\ i < j
          /\ trace[i].type = "enter" /\ trace[i].depth = 1
          /\ trace[j].type = "enter" /\ trace[j].depth = 2
    /\ \E i \in DOMAIN trace : trace[i].type = "enter" /\ trace[i].text # signal.value

\* C16: each key has at most one update callback and one composition callback,
\* the one of the latest on* call: a handler calls, for a key, only the
\* callback registered for it when the signal arrives (never a replaced or
\* removed one); on* records its callback and off* removes the key's callback,
\* nothing else changes a registration; offCompositionUpdate(K) also drops the
\* segmentation cached for K, and what onCompositionUpdate replays is the
\* segmentation cached when it is called.
C16_SubscriptionLifecycle ==
    /\ \A i \in DOMAIN trace :
          /\ (trace[i].type = "update" /\ trace[i].via = "key") =>
                trace[i].cb # NoCb /\ trace[i].cb = Pre.updateMap[trace[i].node]
          /\ (trace[i].type = "update" /\ trace[i].via = "wildcard") =>
                trace[i].cb # NoCb /\ trace[i].cb = Pre.updateMap[WILDCARD]
          /\ (trace[i].type = "composition" /\ trace[i].from # "replay") =>
                trace[i].cb # NoCb /\ trace[i].cb = Pre.compositionUpdateMap[trace[i].key]
          /\ (trace[i].type = "composition" /\ trace[i].from = "replay") =>
                /\ signal.name = "onCompositionUpdate"
                /\ trace[i].cb = signal.cb /\ trace[i].key = signal.key
                /\ Pre.cache[signal.key].present
                /\ trace[i].params = Pre.cache[signal.key]
    /\ updateMap =
          IF signal.name = "onUpdate" THEN [Pre.updateMap EXCEPT ![signal.key] = signal.cb]
          ELSE IF signal.name = "offUpdate" THEN [Pre.updateMap EXCEPT ![signal.key] = NoCb]
          ELSE Pre.updateMap
    /\ compositionUpdateMap =
          IF signal.name = "onCompositionUpdate"
          THEN [Pre.compositionUpdateMap EXCEPT ![signal.key] = signal.cb]
          ELSE IF signal.name = "offCompositionUpdate"
          THEN [Pre.compositionUpdateMap EXCEPT ![signal.key] = NoCb]
          ELSE Pre.compositionUpdateMap
    /\ signal.name = "offCompositionUpdate" =>
          cacheCompositionUpdate = [Pre.cache EXCEPT ![signal.key] = NoParams]

C16_Witness ==
    /\ signal.name = "offCompositionUpdate"
    /\ Pre.compositionUpdateMap[signal.key] = "c2"
    /\ Pre.cache[signal.key].present
    /\ ~cacheCompositionUpdate[signal.key].present
    /\ compositionUpdateMap[signal.key] = NoCb

\* C17: between signal handlers a recorded composing key and text imply that
\* the buffer is Composing: compositionInfo defined => isComposition.
C17_InfoOnlyWhileComposing ==
    compositionInfo.defined => isComposition

C17_Witness ==
    /\ signal.name = "compositionEnd"
    /\ Pre.compositionInfo.defined
    /\ ~compositionInfo.defined
    /\ ~isComposition
    /\ \E i \in DOMAIN trace : trace[i].type = "visit" /\ trace[i].node = Pre.compositionInfo.key
    /\ Pre.compositionUpdateMap[Pre.compositionInfo.key] = NoCb

\* C18: a segmentation is cached for K only while K has no composition
\* subscriber and a composition is active; so no subscriber is handed a
\* segmentation while the buffer is Idle, and a segmentation cached in one
\* session is replayed neither after that session's end nor twice.
C18_CacheOnlyWhileComposingUnsubscribed ==
    /\ \A k \in Keys :
          cacheCompositionUpdate[k].present =>
             /\ compositionUpdateMap[k] = NoCb
             /\ isComposition
    /\ \A i \in DOMAIN trace :
          (trace[i].type = "composition" /\ trace[i].params.present) => Pre.isComposition

\* C19: when the composition-end handler returns, every composition subscriber
\* that received a segmentation during the session has received the absent
\* payload since: none still holds a segmentation, the subscriber of an
\* earlier composing key included.
C19_EndDiscardsEverySegmentation ==
    signal.name = "compositionEnd" => holding = {}

====
